---------------------------- MODULE Spec2Model ----------------------------
(***************************************************************************)
(* A model of the use-form-schema hook (src/index.js): the constraint      *)
(* evaluator checkConstraint, the schema validator checkConstraints /      *)
(* validateField / validateForm, and the hook's event handlers             *)
(* (onFieldUpdate, keydown, reset, handleSubmit, setErrors).               *)
(*                                                                         *)
(* JavaScript values are tagged records, so that values of different       *)
(* JavaScript types can be held in one collection and compared:            *)
(*   undefined, booleans, numbers (integers), strings (sequences of        *)
(*   one-character strings), File objects (name, size, type), arrays,      *)
(*   functions (by name), regular expressions (by name), Error objects,    *)
(*   plain objects, and a thrown exception (the result of an evaluation    *)
(*   that does not return).                                                *)
(***************************************************************************)
EXTENDS Integers, Sequences, FiniteSets, TLC

VARIABLES
    schema,       \* the schema passed to useFormSchema (never assigned after Init)
    data,         \* the current values of the form's fields: what new FormData(ref.current) reads
    result,       \* what the last validateForm / validateField call returned (or threw)
    errors,       \* the hook's errors state
    isValidated,  \* the hook's isValidated state
    lastEvent     \* the handler that ran last, with its field

vars == <<schema, data, result, errors, isValidated, lastEvent>>

---------------------------------------------------------------------------
(* JavaScript values *)

Undef == [t |-> "undefined"]
Null == [t |-> "null"]
Bool(b) == [t |-> "bool", b |-> b]
Num(n) == [t |-> "num", n |-> n]
NaN == [t |-> "nan"]
Str(s) == [t |-> "str", s |-> s]
FileOf(name, size, type) == [t |-> "file", name |-> name, size |-> size, type |-> type]
Arr(items) == [t |-> "array", items |-> items]
Fn(name) == [t |-> "fn", fn |-> name]
RegExpOf(name) == [t |-> "regexp", re |-> name]
ErrorObj == [t |-> "error"]
Obj(blackList) == [t |-> "object", blackList |-> blackList]
Throw(e) == [t |-> "throw", e |-> e]

IsThrow(v) == v.t = "throw"

\* ToBoolean: what !!v, if (v) and v && ... test.
Truthy(v) ==
    CASE v.t = "undefined" -> FALSE
      [] v.t = "null" -> FALSE
      [] v.t = "nan" -> FALSE
      [] v.t = "bool" -> v.b
      [] v.t = "num" -> v.n # 0
      [] v.t = "str" -> v.s # <<>>
      [] OTHER -> TRUE

\* x === y. Objects (files, arrays, functions, ...) are equal only to themselves,
\* and no object of the data record is an object of the schema.
StrictEq(x, y) ==
    /\ x.t = y.t
    /\ x.t \in {"undefined", "null", "bool", "num", "str"}
    /\ x = y

Digits == <<"0", "1", "2", "3", "4", "5", "6", "7", "8", "9">>
IsDigit(c) == \E i \in 1..10 : Digits[i] = c
DigitValue(c) == (CHOOSE i \in 1..10 : Digits[i] = c) - 1

RECURSIVE DigitsValue(_)
DigitsValue(s) ==
    IF s = <<>> THEN 0
    ELSE 10 * DigitsValue(SubSeq(s, 1, Len(s) - 1)) + DigitValue(s[Len(s)])

AllDigits(s) == \A i \in 1..Len(s) : IsDigit(s[i])

\* ToNumber of a string: the empty string is 0, a run of digits with an optional
\* leading '-' is that integer, anything else is NaN. (Decimal fractions, exponents,
\* surrounding white space and a leading '+' are outside the value domain used here.)
StringToNumber(s) ==
    IF s = <<>> THEN Num(0)
    ELSE IF AllDigits(s) THEN Num(DigitsValue(s))
    ELSE IF s[1] = "-" /\ Len(s) > 1 /\ AllDigits(Tail(s)) THEN Num(0 - DigitsValue(Tail(s)))
    ELSE NaN

ToNumber(v) ==
    CASE v.t = "num" -> v
      [] v.t = "bool" -> Num(IF v.b THEN 1 ELSE 0)
      [] v.t = "null" -> Num(0)
      [] v.t = "str" -> StringToNumber(v.s)
      [] OTHER -> NaN

RECURSIVE NatToString(_)
NatToString(n) ==
    IF n < 10 THEN <<Digits[n + 1]>>
    ELSE NatToString(n \div 10) \o <<Digits[(n % 10) + 1]>>

\* ToString, as RegExp.prototype.test and String.prototype.includes apply it.
JsToString(v) ==
    CASE v.t = "str" -> v.s
      [] v.t = "num" -> IF v.n < 0 THEN <<"-">> \o NatToString(0 - v.n) ELSE NatToString(v.n)
      [] v.t = "bool" -> IF v.b THEN <<"t", "r", "u", "e">> ELSE <<"f", "a", "l", "s", "e">>
      [] v.t = "undefined" -> <<"u", "n", "d", "e", "f", "i", "n", "e", "d">>
      [] v.t = "null" -> <<"n", "u", "l", "l">>
      [] v.t = "nan" -> <<"N", "a", "N">>
      [] OTHER -> <<"[", "o", "b", "j", "e", "c", "t", " ", "O", "b", "j", "e", "c", "t", "]">>

\* The characters strings are built from, in code-unit order.
CharOrder == <<" ", "-", ".", "0", "1", "2", "3", "4", "5", "6", "7", "8", "9", "@",
               "N", "O", "[", "\\", "]", "a", "b", "c", "d", "e", "f", "g", "i", "j",
               "l", "n", "o", "p", "r", "s", "t", "u", "x">>
CharCode(c) == CHOOSE i \in 1..Len(CharOrder) : CharOrder[i] = c

\* Lexicographic comparison of two strings by code unit: "lt", "eq" or "gt".
RECURSIVE StringCompare(_, _)
StringCompare(s, u) ==
    IF s = <<>> /\ u = <<>> THEN "eq"
    ELSE IF s = <<>> THEN "lt"
    ELSE IF u = <<>> THEN "gt"
    ELSE IF CharCode(s[1]) < CharCode(u[1]) THEN "lt"
    ELSE IF CharCode(s[1]) > CharCode(u[1]) THEN "gt"
    ELSE StringCompare(Tail(s), Tail(u))

\* The abstract relational comparison behind <, >, <=, >=: two strings compare as
\* strings, anything else as numbers, and a NaN on either side is "undefined".
CompareNumbers(nx, ny) ==
    IF nx.t = "nan" \/ ny.t = "nan" THEN "undefined"
    ELSE IF nx.n < ny.n THEN "lt"
    ELSE IF nx.n > ny.n THEN "gt"
    ELSE "eq"

Compare(x, y) ==
    IF x.t = "str" /\ y.t = "str" THEN StringCompare(x.s, y.s)
    ELSE CompareNumbers(ToNumber(x), ToNumber(y))

Gt(x, y) == Compare(x, y) = "gt"
Gte(x, y) == Compare(x, y) \in {"gt", "eq"}
Lt(x, y) == Compare(x, y) = "lt"
Lte(x, y) == Compare(x, y) \in {"lt", "eq"}

\* v.length: defined for strings and arrays, undefined for every other scalar.
LengthOf(v) ==
    CASE v.t = "str" -> Num(Len(v.s))
      [] v.t = "array" -> Num(Len(v.items))
      [] OTHER -> Undef

\* p[i] for the zero-based index i.
Index(p, i) ==
    CASE p.t = "array" -> IF 0 <= i /\ i + 1 <= Len(p.items) THEN p.items[i + 1] ELSE Undef
      [] p.t = "str" -> IF 0 <= i /\ i + 1 <= Len(p.s) THEN Str(<<p.s[i + 1]>>) ELSE Undef
      [] p.t \in {"undefined", "null"} -> Throw("TypeError")
      [] OTHER -> Undef

IsSubstring(u, s) == \E i \in 1..(Len(s) + 1) : SubSeq(s, i, i + Len(u) - 1) = u

\* list.includes(v): Array.prototype.includes on an array, String.prototype.includes
\* on a string, and a TypeError on a value that has no includes method.
Includes(list, v) ==
    CASE list.t = "array" -> Bool(\E i \in 1..Len(list.items) : StrictEq(list.items[i], v))
      [] list.t = "str" -> Bool(IsSubstring(JsToString(v), list.s))
      [] OTHER -> Throw("TypeError")

Not(v) == IF IsThrow(v) THEN v ELSE Bool(~Truthy(v))

\* name.split('.').pop(): what follows the last '.', the whole name when it has none.
RECURSIVE Extension(_)
Extension(name) ==
    IF name = <<>> THEN <<>>
    ELSE IF name[Len(name)] = "." THEN <<>>
    ELSE Extension(SubSeq(name, 1, Len(name) - 1)) \o <<name[Len(name)]>>

---------------------------------------------------------------------------
(* The pattern registry of checkConstraint and RegExp.prototype.test *)

IsSpace(c) == c = " "
NoSpace(s, from, to) == \A k \in from..to : ~IsSpace(s[k])

\* /^\S+@\S+\.\S+$/
EmailTest(s) ==
    \E i \in 1..Len(s) : \E j \in 1..Len(s) :
        /\ s[i] = "@"
        /\ s[j] = "."
        /\ 1 < i
        /\ i + 1 < j
        /\ j < Len(s)
        /\ NoSpace(s, 1, Len(s))

AllD(s, from, to) == \A k \in from..to : s[k] = "d"

\* /-?\\d*(\\.\\d+)?$/ : in a regular expression literal \\ is a literal backslash, so
\* the expression reads: an optional '-', a backslash, any number of letters 'd',
\* optionally (a backslash, any character, a backslash, one or more letters 'd'),
\* the end of the input. It is not anchored at the start.
NumberTest(s) ==
    \E p \in 1..(Len(s) + 1) : \E q \in {p, p + 1} :
        /\ q = p + 1 => (p <= Len(s) /\ s[p] = "-")
        /\ q <= Len(s)
        /\ s[q] = "\\"
        /\ \E r \in q..Len(s) :
              /\ AllD(s, q + 1, r)
              /\ \/ r = Len(s)
                 \/ /\ r + 4 <= Len(s)
                    /\ s[r + 1] = "\\"
                    /\ s[r + 3] = "\\"
                    /\ AllD(s, r + 4, Len(s))

\* /^[0-9]+.[0-9]+$/ : the '.' is not escaped and stands for any character.
DoubleTest(s) ==
    \E i \in 1..Len(s) :
        /\ i + 2 <= Len(s)
        /\ AllDigits(SubSeq(s, 1, i))
        /\ AllDigits(SubSeq(s, i + 2, Len(s)))

\* /^[0-9]+/
IntegerTest(s) == Len(s) >= 1 /\ IsDigit(s[1])

\* The characters of the model's alphabet that the alpha expression excludes.
AlphaExcluded == {"-", "@", ".", "[", "]", "\\"}

\* /^[^`~\-!@#$%^&*()_+={}[\]|\\:;...<,>.?...]*$/
AlphaTest(s) == \A k \in 1..Len(s) : s[k] \notin AlphaExcluded

\* The keys of the patterns object, by the string that names them.
PatternName(s) ==
    CASE s = <<"e", "m", "a", "i", "l">> -> "email"
      [] s = <<"n", "u", "m", "b", "e", "r">> -> "number"
      [] s = <<"d", "o", "u", "b", "l", "e">> -> "double"
      [] s = <<"i", "n", "t", "e", "g", "e", "r">> -> "integer"
      [] s = <<"a", "l", "p", "h", "a">> -> "alpha"
      [] OTHER -> "none"

\* re.test(v): v is converted to a string first.
RegExpTest(re, v) ==
    LET s == JsToString(v)
    IN CASE re = "email" -> EmailTest(s)
         [] re = "number" -> NumberTest(s)
         [] re = "double" -> DoubleTest(s)
         [] re = "integer" -> IntegerTest(s)
         [] re = "alpha" -> AlphaTest(s)
         [] OTHER -> FALSE

\* case 'pattern' of checkConstraint.
PatternCheck(fieldValue, constraintParams) ==
    LET name == Index(constraintParams, 0)
    IN IF IsThrow(name) THEN name
       ELSE IF name.t = "str" /\ PatternName(name.s) # "none"
       THEN IF StrictEq(LengthOf(fieldValue), Num(0)) THEN Bool(TRUE)
            ELSE Bool(RegExpTest(PatternName(name.s), fieldValue))
       ELSE Bool(FALSE)

---------------------------------------------------------------------------
(* Caller-supplied functions: the custom validators of the README and      *)
(* functions that return one value of each JavaScript type.                *)

\* The field names of the README's schema.
login == <<"l", "o", "g", "i", "n">>
password == <<"p", "a", "s", "s", "w", "o", "r", "d">>
Fields == {login, password}

MsgSame == Str(<<"s", "a", "m", "e">>)
MsgShort == Str(<<"s", "h", "o", "r", "t">>)

\* f(fieldValue, data)
Call2(f, fieldValue, d) ==
    IF f.t # "fn" THEN Throw("TypeError")
    ELSE CASE f.fn = "retUndefined" -> Undef
           [] f.fn = "retTrue" -> Bool(TRUE)
           [] f.fn = "retFalse" -> Bool(FALSE)
           [] f.fn = "retEmpty" -> Str(<<>>)
           [] f.fn = "retMessage" -> MsgShort
           [] f.fn = "retNumber" -> Num(1)
           [] f.fn = "retZero" -> Num(0)
           [] f.fn = "retObject" -> Obj(Arr(<<>>))
           [] f.fn = "throws" -> Throw("CustomError")
           \* README: the validator checkPassword
           [] f.fn = "checkPasswordValidator" ->
                IF StrictEq(fieldValue, d[login]) THEN MsgSame
                ELSE IF Lt(LengthOf(fieldValue), Num(3)) THEN MsgShort
                ELSE Undef
           \* README: validate without params
           [] f.fn = "checkPassword" -> Bool(~StrictEq(fieldValue, d[login]))
           [] OTHER -> Undef

\* f(fieldValue, params, data)
Call3(f, fieldValue, params, d) ==
    IF f.t # "fn" THEN Throw("TypeError")
    ELSE CASE f.fn = "checkBlackList" ->
                \* README: validate with params
                IF params.t # "object" THEN Throw("TypeError")
                ELSE Not(Includes(params.blackList, fieldValue))
           [] OTHER -> Call2(f, fieldValue, params)

---------------------------------------------------------------------------
(* checkConstraint *)

\* re.test(v) for a caller-supplied value re.
TestOf(re, v) == IF re.t = "regexp" THEN Bool(RegExpTest(re.re, v)) ELSE Throw("TypeError")

\* case 'validate', the same in both branches.
ValidateCall(fieldValue, constraintParams, d) ==
    IF IsThrow(Index(constraintParams, 0)) THEN Index(constraintParams, 0)
    ELSE IF StrictEq(LengthOf(constraintParams), Num(3))
    THEN Call3(Index(constraintParams, 0), fieldValue, Index(constraintParams, 1), d)
    ELSE Call2(Index(constraintParams, 0), fieldValue, d)

\* The switch of the branch for File values (fieldValue.name !== undefined).
FileConstraint(constraintName, fieldValue, constraintParams, d) ==
    LET p0 == Index(constraintParams, 0)
        ext == Str(Extension(fieldValue.name))
        size == Num(fieldValue.size)
        type == Str(fieldValue.type)
    IN CASE constraintName = "required" -> Bool(Truthy(Str(fieldValue.name)))
         [] constraintName = "validator" -> Call2(constraintParams, fieldValue, d)
         [] constraintName = "validate" -> ValidateCall(fieldValue, constraintParams, d)
         [] constraintName \in {"ext", "extAllowed", "extNotAllowed", "sizeEqual",
                                "sizeNotEqual", "sizeGt", "sizeGte", "sizeLt", "sizeLte",
                                "type", "typeIn", "typeNotIn"} /\ IsThrow(p0) -> p0
         [] constraintName = "ext" -> Bool(StrictEq(ext, p0))
         [] constraintName = "extAllowed" -> Includes(p0, ext)
         [] constraintName = "extNotAllowed" -> Not(Includes(p0, ext))
         [] constraintName = "sizeEqual" -> Bool(StrictEq(size, p0))
         [] constraintName = "sizeNotEqual" -> Bool(~StrictEq(size, p0))
         [] constraintName = "sizeGt" -> Bool(Gt(size, p0))
         [] constraintName = "sizeGte" -> Bool(Gte(size, p0))
         [] constraintName = "sizeLt" -> Bool(Lt(size, p0))
         [] constraintName = "sizeLte" -> Bool(Lte(size, p0))
         [] constraintName = "type" -> Bool(StrictEq(type, p0))
         [] constraintName = "typeIn" -> Includes(p0, type)
         [] constraintName = "typeNotIn" -> Not(Includes(p0, type))
         [] OTHER -> ErrorObj

\* data[name] for a value name used as a key: undefined when the record has no such key.
Lookup(d, name) ==
    IF name.t = "str" /\ name.s \in DOMAIN d THEN d[name.s] ELSE Undef

\* The switch of the branch for every other value.
ScalarConstraint(constraintName, fieldValue, constraintParams, d) ==
    LET p0 == Index(constraintParams, 0)
    IN CASE constraintName = "required" -> Bool(Truthy(fieldValue))
         [] constraintName = "validator" -> Call2(constraintParams, fieldValue, d)
         [] constraintName = "validate" -> ValidateCall(fieldValue, constraintParams, d)
         [] constraintName \in {"min", "max", "equalField", "notEqualField", "equal",
                                "notEqual", "gt", "gte", "lt", "lte", "gtField", "gteField",
                                "ltField", "lteField", "in", "notIn", "pattern", "regexp"}
               /\ IsThrow(p0) -> p0
         [] constraintName = "min" -> Bool(Gte(LengthOf(fieldValue), p0))
         [] constraintName = "max" -> Bool(Lte(LengthOf(fieldValue), p0))
         [] constraintName = "equalField" -> Bool(StrictEq(fieldValue, Lookup(d, p0)))
         [] constraintName = "notEqualField" -> Bool(~StrictEq(fieldValue, Lookup(d, p0)))
         [] constraintName = "equal" -> Bool(StrictEq(fieldValue, p0))
         [] constraintName = "notEqual" -> Bool(~StrictEq(fieldValue, p0))
         [] constraintName = "gt" -> Bool(Gt(fieldValue, p0))
         [] constraintName = "gte" -> Bool(Gte(fieldValue, p0))
         [] constraintName = "lt" -> Bool(Lt(fieldValue, p0))
         [] constraintName = "lte" -> Bool(Lte(fieldValue, p0))
         [] constraintName = "gtField" -> Bool(Gt(fieldValue, Lookup(d, p0)))
         [] constraintName = "gteField" -> Bool(Gte(fieldValue, Lookup(d, p0)))
         [] constraintName = "ltField" -> Bool(Lt(fieldValue, Lookup(d, p0)))
         [] constraintName = "lteField" -> Bool(Lte(fieldValue, Lookup(d, p0)))
         [] constraintName = "in" -> Includes(p0, fieldValue)
         [] constraintName = "notIn" -> Not(Includes(p0, fieldValue))
         [] constraintName = "pattern" -> PatternCheck(fieldValue, constraintParams)
         [] constraintName = "regexp" -> TestOf(p0, fieldValue)
         [] OTHER -> ErrorObj

\* checkConstraint(constraintName, fieldValue, constraintParams, data): the value it
\* returns, or Throw(e) when it throws. Reading fieldValue.name of undefined or null
\* throws a TypeError.
checkConstraint(constraintName, fieldValue, constraintParams, d) ==
    IF fieldValue.t \in {"undefined", "null"} THEN Throw("TypeError")
    ELSE IF fieldValue.t = "file"
    THEN FileConstraint(constraintName, fieldValue, constraintParams, d)
    ELSE ScalarConstraint(constraintName, fieldValue, constraintParams, d)

---------------------------------------------------------------------------
(* checkConstraints, validateField, validateForm                           *)
(*                                                                         *)
(* A schema is the sequence of its entries [name, constraints] in          *)
(* insertion order (what Object.entries(schema) yields), and the           *)
(* constraints of a field the sequence of their entries [name, params].    *)
(* A data record maps every field name to its value, undefined standing    *)
(* for a key the record does not hold. An error report maps field names    *)
(* to the sequence of their messages. What a call yields is Returned(r),   *)
(* ReturnedNull or Thrown(e).                                              *)

Returned(r) == [kind |-> "report", report |-> r]
ReturnedNull == [kind |-> "null"]
Thrown(e) == [kind |-> "throw", e |-> e]
NoCall == [kind |-> "none"]

EmptyReport == [f \in {} |-> <<>>]

ConstraintNames(constraints) == {constraints[i].name : i \in 1..Len(constraints)}

\* { ...a, ...b }
Spread(a, b) ==
    [f \in (DOMAIN a) \cup (DOMAIN b) |-> IF f \in DOMAIN b THEN b[f] ELSE a[f]]

\* Faulty variants of the guard: one that never returns early, and one that returns
\* early for an empty value whether or not required is declared.
ShortCircuitNever(fieldName, constraints, d) == FALSE

ShortCircuitWithoutRequired(fieldName, constraints, d) ==
    StrictEq(Lookup(d, Str(fieldName)), Str(<<>>))

\* The guard of the early return: data[fieldName] === '' and no 'required' key.
ShortCircuit(fieldName, constraints, d) ==
    /\ StrictEq(Lookup(d, Str(fieldName)), Str(<<>>))
    /\ "required" \notin ConstraintNames(constraints)

\* The message one constraint contributes, undefined when it contributes none.
MessageOf(constraintName, constraintParams, isValid) ==
    IF constraintName # "validator" /\ ~Truthy(isValid)
    THEN IF constraintParams.t = "array"
         THEN Index(constraintParams, Len(constraintParams.items) - 1)
         ELSE constraintParams
    ELSE IF Truthy(isValid) /\ constraintName = "validator"
    THEN isValid
    ELSE Undef

\* errors[fieldName].push(message), or errors[fieldName] = [message] for the first one.
PushMessage(list, message) == Append(list, message)

\* if (message) { ... }
PushIfMessage(list, message) ==
    IF Truthy(message) THEN PushMessage(list, message) ELSE list

\* The loop over Object.entries(constraints): Arr(messages), or the exception thrown
\* by the evaluation of a constraint, which ends the loop. CollectStep is one turn
\* of the loop, isValid being what checkConstraint gave for the first constraint.
RECURSIVE CollectMessages(_, _, _, _)
RECURSIVE CollectStep(_, _, _, _, _)
CollectStep(fieldName, constraints, d, list, isValid) ==
    IF IsThrow(isValid) THEN isValid
    ELSE CollectMessages(fieldName, Tail(constraints), d,
                         PushIfMessage(list, MessageOf(Head(constraints).name,
                                                       Head(constraints).params, isValid)))

CollectMessages(fieldName, constraints, d, list) ==
    IF constraints = <<>> THEN Arr(list)
    ELSE CollectStep(fieldName, constraints, d, list,
                     checkConstraint(Head(constraints).name, Lookup(d, Str(fieldName)),
                                     Head(constraints).params, d))

\* A faulty variant that creates the key fieldName before any message is pushed.
FieldErrorsAlways(fieldName, list) == [f \in {fieldName} |-> list]

\* The errors object of checkConstraints: the key fieldName exists once a message was pushed.
FieldErrors(fieldName, list) ==
    IF list = <<>> THEN EmptyReport ELSE [f \in {fieldName} |-> list]

\* What checkConstraints returns after its loop.
CollectedErrors(fieldName, collected) ==
    IF IsThrow(collected) THEN Thrown(collected.e)
    ELSE Returned(FieldErrors(fieldName, collected.items))

checkConstraints(fieldName, constraints, d) ==
    IF ShortCircuit(fieldName, constraints, d) THEN ReturnedNull
    ELSE CollectedErrors(fieldName, CollectMessages(fieldName, constraints, d, <<>>))

\* schema[fieldName]: the constraints of the entry of that name, <<>> standing for undefined.
HasField(sch, fieldName) == \E i \in 1..Len(sch) : sch[i].name = fieldName
ConstraintsOf(sch, fieldName) ==
    sch[CHOOSE i \in 1..Len(sch) : sch[i].name = fieldName].constraints

validateField(sch, fieldName, d) ==
    IF HasField(sch, fieldName)
    THEN checkConstraints(fieldName, ConstraintsOf(sch, fieldName), d)
    ELSE Returned(EmptyReport)

\* errors = { ...errors, ...r }, where spreading null adds nothing.
SpreadResult(errs, r) == IF r.kind = "null" THEN errs ELSE Spread(errs, r.report)

\* The loop of validateForm over the entries left, errs being the errors so far.
\* ValidateStep is one turn, r being what checkConstraints gave for the first entry.
RECURSIVE ValidateEntries(_, _, _)
RECURSIVE ValidateStep(_, _, _, _)
ValidateStep(entries, d, errs, r) ==
    IF r.kind = "throw" THEN r
    ELSE ValidateEntries(Tail(entries), d, SpreadResult(errs, r))

ValidateEntries(entries, d, errs) ==
    IF entries = <<>> THEN Returned(errs)
    ELSE ValidateStep(entries, d, errs,
                      checkConstraints(Head(entries).name, Head(entries).constraints, d))

validateForm(sch, d) == ValidateEntries(sch, d, EmptyReport)

---------------------------------------------------------------------------
(* The hook: its state and its handlers *)

Entry(name, constraints) == [name |-> name, constraints |-> constraints]
Rule(name, params) == [name |-> name, params |-> params]

MsgRequired == Str(<<"R">>)
MsgMin == Str(<<"m">>)
MsgValidate == Str(<<"v">>)
MsgTaken == Str(<<"t">>)

\* The schemas the hook is mounted with: the README's login form, a form with an
\* optional field and a validator, and a form that declares one of its two fields.
HookSchemas ==
    { <<Entry(login, <<Rule("required", MsgRequired), Rule("min", Arr(<<Num(2), MsgMin>>))>>),
        Entry(password, <<Rule("required", MsgRequired)>>)>>,
      <<Entry(login, <<Rule("min", Arr(<<Num(2), MsgMin>>))>>),
        Entry(password, <<Rule("required", MsgRequired),
                          Rule("validator", Fn("checkPasswordValidator"))>>)>>,
      <<Entry(password, <<Rule("validate", Arr(<<Fn("checkPassword"), MsgValidate>>))>>)>> }

\* What FormData holds for a control: the string typed into it, or nothing for a
\* control that submits no value (an unchecked checkbox).
TypedValues == {Str(<<>>), Str(<<"a">>), Str(<<"a", "b", "c">>)}
ControlValues == TypedValues \cup {Undef}

\* The value a control is reset to.
DefaultData == [f \in Fields |-> Str(<<>>)]

\* The reports a caller passes to setErrors (messages of a remote system).
InjectedReports ==
    { [f \in {login} |-> <<MsgTaken>>],
      [f \in {login, password} |-> <<MsgTaken>>] }

Event(ev, field) == [ev |-> ev, field |-> field]

Init ==
    /\ schema \in HookSchemas
    /\ data = DefaultData
    /\ result = NoCall
    /\ errors = EmptyReport
    /\ isValidated = FALSE
    /\ lastEvent = Event("mount", <<>>)

\* delete errs[name]
Delete(errs, name) == [f \in (DOMAIN errs) \ {name} |-> errs[f]]

\* A faulty variant that passes the field's own result to setErrors and drops the rest.
UpdatedErrorsReplacingAll(errs, name, err) == SpreadResult(EmptyReport, err)

\* What onFieldUpdate passes to setErrors: { ...errs, ...err } after delete errs[name].
UpdatedErrors(errs, name, err) == SpreadResult(Delete(errs, name), err)

\* A change event on the control named field, whose value is v by then (typed before,
\* or picked without any key). onFieldUpdate validates the field against the form's
\* data and replaces its entry; an exception of validateField ends the handler
\* before it touches the state.
FieldUpdated(field, formDataObj, err) ==
    /\ data' = formDataObj
    /\ result' = err
    /\ lastEvent' = Event("change", field)
    /\ errors' = IF err.kind = "throw" THEN errors ELSE UpdatedErrors(errors, field, err)
    /\ UNCHANGED <<schema, isValidated>>

onFieldUpdate(field, v) ==
    FieldUpdated(field, [data EXCEPT ![field] = v],
                 validateField(schema, field, [data EXCEPT ![field] = v]))

\* A keydown event on the control named field, after which the control holds v
\* (v is its old value when the key does not edit it): setIsValidated(false).
onKeyDown(field, v) ==
    /\ isValidated' = FALSE
    /\ data' = [data EXCEPT ![field] = v]
    /\ lastEvent' = Event("keydown", field)
    /\ UNCHANGED <<schema, result, errors>>

\* The form's reset event (also what reset() raises): the controls go back to their
\* defaults, setErrors({}) and setIsValidated(false).
onReset ==
    /\ data' = DefaultData
    /\ errors' = EmptyReport
    /\ isValidated' = FALSE
    /\ lastEvent' = Event("reset", <<>>)
    /\ UNCHANGED <<schema, result>>

\* isErrorsOccured of handleSubmit: err && Object.keys(err).length === 0.
isErrorsOccured(err) == err.kind = "report" /\ DOMAIN err.report = {}

\* handleSubmit: validate the whole form, call back when the report is empty, then
\* setIsValidated and setErrors. An exception of validateForm ends the handler first.
Submitted(err) ==
    /\ result' = err
    /\ lastEvent' = Event("submit", <<>>)
    /\ isValidated' = IF err.kind = "throw" THEN isValidated ELSE isErrorsOccured(err)
    /\ errors' = IF err.kind = "throw" THEN errors ELSE err.report
    /\ UNCHANGED <<schema, data>>

handleSubmit == Submitted(validateForm(schema, data))

\* setErrors, as returned to the caller.
setErrors(report) ==
    /\ errors' = report
    /\ lastEvent' = Event("setErrors", <<>>)
    /\ UNCHANGED <<schema, data, result, isValidated>>

Next ==
    \/ \E f \in Fields : \E v \in ControlValues : onFieldUpdate(f, v)
    \/ \E f \in Fields : \E v \in TypedValues : onKeyDown(f, v)
    \/ onReset
    \/ handleSubmit
    \/ \E r \in InjectedReports : setErrors(r)

Spec == Init /\ [][Next]_vars

---------------------------------------------------------------------------
(* The schema validator alone: validateForm and validateField applied to   *)
(* a schema and a data record drawn from bounded sets.                     *)

MaxRules == 2

MsgEqual == Str(<<"e">>)
MsgGt == Str(<<"g">>)
MsgEqualField == Str(<<"q">>)
MsgLtField == Str(<<"l">>)
MsgIn == Str(<<"i">>)
MsgNotIn == Str(<<"o">>)
MsgPattern == Str(<<"n">>)
MsgRegexp == Str(<<"x">>)
MsgBlackList == Str(<<"b">>)
MsgExt == Str(<<"E">>)
MsgSize == Str(<<"S">>)
MsgType == Str(<<"T">>)
MsgUnknown == Str(<<"u">>)

PatNumber == <<"n", "u", "m", "b", "e", "r">>
PatUnregistered == <<"d", "i", "g", "i", "t">>
ExtPng == <<"p", "n", "g">>
TypePng == <<"i", "m", "a", "g", "e", "/", "p", "n", "g">>

\* The functions a schema passes as its validator.
ValidatorFns == {"retUndefined", "retTrue", "retFalse", "retEmpty", "retMessage",
                 "retNumber", "retObject", "throws", "checkPasswordValidator"}

\* The constraints a field's rules are drawn from: constraints of the scalar and of
\* the file vocabulary with the params shapes of the README, a pattern name that is
\* not registered, and a constraint name that is in neither vocabulary.
RulePool ==
    { Rule("required", MsgRequired),
      Rule("min", Arr(<<Num(2), MsgMin>>)),
      Rule("equal", Arr(<<Str(<<"4", "2">>), MsgEqual>>)),
      Rule("gt", Arr(<<Num(5), MsgGt>>)),
      Rule("equalField", Arr(<<Str(password), MsgEqualField>>)),
      Rule("ltField", Arr(<<Str(password), MsgLtField>>)),
      Rule("in", Arr(<<Arr(<<Str(<<"a">>), Str(<<"4", "2">>)>>), MsgIn>>)),
      Rule("notIn", Arr(<<Arr(<<Str(<<"a">>), Num(5)>>), MsgNotIn>>)),
      Rule("pattern", Arr(<<Str(PatNumber), MsgPattern>>)),
      Rule("pattern", Arr(<<Str(PatUnregistered), MsgPattern>>)),
      Rule("regexp", Arr(<<RegExpOf("integer"), MsgRegexp>>)),
      Rule("validate", Arr(<<Fn("checkPassword"), MsgValidate>>)),
      Rule("validate", Arr(<<Fn("checkBlackList"), Obj(Arr(<<Str(<<"a">>)>>)), MsgBlackList>>)),
      Rule("ext", Arr(<<Str(ExtPng), MsgExt>>)),
      Rule("sizeLt", Arr(<<Num(5), MsgSize>>)),
      Rule("typeIn", Arr(<<Arr(<<Str(TypePng)>>), MsgType>>)),
      Rule("foo", Arr(<<Num(1), MsgUnknown>>)) }
    \cup { Rule("validator", Fn(f)) : f \in ValidatorFns }

\* The rules of a field: sequences of n constraints of the pool with distinct names.
RECURSIVE RuleSeqs(_)
RuleSeqs(n) ==
    IF n = 0 THEN {<<>>}
    ELSE {Append(p[1], p[2]) :
            p \in {q \in RuleSeqs(n - 1) \X RulePool : q[2].name \notin ConstraintNames(q[1])}}

EngineRules == UNION {RuleSeqs(n) : n \in 0..MaxRules}

\* The schemas: login with any rules, alone or followed by a required password.
EngineSchemas ==
    {<<Entry(login, r)>> : r \in EngineRules}
    \cup {<<Entry(login, r), Entry(password, <<Rule("required", MsgRequired)>>)>> : r \in EngineRules}

\* The values of login: strings, a number, no value, and File objects.
LoginValues ==
    { Str(<<>>), Str(<<"a">>), Str(<<"4", "2">>), Str(<<"a", "b", "c">>), Num(5), Undef,
      FileOf(<<>>, 0, <<>>), FileOf(<<"a", ".", "p", "n", "g">>, 9, TypePng) }
PasswordValues == {Str(<<"4", "2">>), Str(<<>>), Undef}

EngineData ==
    {[f \in Fields |-> IF f = login THEN v ELSE w] : v \in LoginValues, w \in PasswordValues}

InitEngine ==
    /\ schema \in EngineSchemas
    /\ data \in EngineData
    /\ result = NoCall
    /\ errors = EmptyReport
    /\ isValidated = FALSE
    /\ lastEvent = Event("mount", <<>>)

CallValidateForm ==
    /\ result' = validateForm(schema, data)
    /\ lastEvent' = Event("validateForm", <<>>)
    /\ UNCHANGED <<schema, data, errors, isValidated>>

CallValidateField(fieldName) ==
    /\ result' = validateField(schema, fieldName, data)
    /\ lastEvent' = Event("validateField", fieldName)
    /\ UNCHANGED <<schema, data, errors, isValidated>>

NextEngine ==
    \/ CallValidateForm
    \/ \E f \in Fields : CallValidateField(f)

SpecEngine == InitEngine /\ [][NextEngine]_vars

---------------------------------------------------------------------------
(* The pattern constraint alone: every registered pattern against every    *)
(* string over a small alphabet.                                           *)

MaxLen == 3

PatternAlphabet == {"4", "2", "-", ".", "a", "\\", "d"}
PatternStrings == UNION {[1..n -> PatternAlphabet] : n \in 0..MaxLen}
PatternNames ==
    { <<"e", "m", "a", "i", "l">>, PatNumber, <<"d", "o", "u", "b", "l", "e">>,
      <<"i", "n", "t", "e", "g", "e", "r">>, <<"a", "l", "p", "h", "a">> }

InitPattern ==
    /\ schema \in {<<Entry(login, <<Rule("pattern", Arr(<<Str(n), MsgPattern>>))>>)>> :
                     n \in PatternNames}
    /\ data \in {[f \in Fields |-> IF f = login THEN Str(v) ELSE Str(<<>>)] : v \in PatternStrings}
    /\ result = NoCall
    /\ errors = EmptyReport
    /\ isValidated = FALSE
    /\ lastEvent = Event("mount", <<>>)

SpecPattern == InitPattern /\ [][NextEngine]_vars

---------------------------------------------------------------------------
(* The properties checked *)

\* The constraint names of the two switch statements of checkConstraint.
ScalarVocabulary ==
    {"required", "min", "max", "equalField", "notEqualField", "equal", "notEqual", "gt",
     "gte", "lt", "lte", "gtField", "gteField", "ltField", "lteField", "in", "notIn",
     "pattern", "regexp", "validator", "validate"}
FileVocabulary ==
    {"required", "ext", "extAllowed", "extNotAllowed", "sizeEqual", "sizeNotEqual", "sizeGt",
     "sizeGte", "sizeLt", "sizeLte", "type", "typeIn", "typeNotIn", "validator", "validate"}
Vocabulary == ScalarVocabulary \cup FileVocabulary

\* The last call was a validation that covers the field f.
Called(f) ==
    lastEvent = Event("validateForm", <<>>) \/ lastEvent = Event("validateField", f)

Declared(f) == HasField(schema, f)
RulesOf(f) == ConstraintsOf(schema, f)
RuleNamed(f, name) ==
    RulesOf(f)[CHOOSE i \in 1..Len(RulesOf(f)) : RulesOf(f)[i].name = name]

\* f holds the empty string and its rules do not include required.
EmptyOptional(f) ==
    /\ data[f] = Str(<<>>)
    /\ "required" \notin ConstraintNames(RulesOf(f))

IsNonEmptyString(v) == v.t = "str" /\ v.s # <<>>

Contains(report, f, message) ==
    /\ f \in DOMAIN report
    /\ \E i \in 1..Len(report[f]) : report[f][i] = message

UsesCustomFunction(f) ==
    \E name \in ConstraintNames(RulesOf(f)) : name \in {"validator", "validate"}

\* C1: for every field value and every constraint name outside the vocabulary, a
\* validation of a field that carries such a constraint signals InvalidSchema: it
\* returns no report in which the constraint passed silently. (Stated for a field
\* that holds a value, is not an empty optional field and has no custom function.)
C1_UnknownConstraintSignalsInvalidSchema ==
    \A f \in Fields :
        ( /\ Called(f)
          /\ Declared(f)
          /\ data[f] # Undef
          /\ ~EmptyOptional(f)
          /\ ~UsesCustomFunction(f)
          /\ \E name \in ConstraintNames(RulesOf(f)) : name \notin Vocabulary )
        => result = Thrown("InvalidSchema")

\* C2: a validator constraint contributes a message if and only if its function
\* returns a non-empty string for (value, data), and that string is the message;
\* any other return value contributes nothing to the report.
C2_ValidatorContributesIffNonEmptyString ==
    \A f \in Fields :
        ( /\ Called(f)
          /\ result.kind = "report"
          /\ Declared(f)
          /\ ~EmptyOptional(f)
          /\ "validator" \in ConstraintNames(RulesOf(f)) )
        => ( IsNonEmptyString(Call2(RuleNamed(f, "validator").params, data[f], data))
             <=> Contains(result.report, f,
                          Call2(RuleNamed(f, "validator").params, data[f], data)) )

\* C3: a field whose rules do not include required and whose value is the empty
\* string has no entry in the report of validateForm, whatever its other constraints
\* and whatever the other fields hold.
C3_EmptyOptionalFieldHasNoEntry ==
    (lastEvent.ev = "validateForm" /\ result.kind # "throw")
    => /\ result.kind = "report"
       /\ \A f \in Fields :
            (Declared(f) /\ EmptyOptional(f)) => f \notin DOMAIN result.report

\* validateForm returned a report with an entry for password and none for login,
\* whose value is empty and whose rules, without required, hold a min that '' fails.
C3_Witness ==
    /\ lastEvent.ev = "validateForm"
    /\ result.kind = "report"
    /\ EmptyOptional(login)
    /\ "min" \in ConstraintNames(RulesOf(login))
    /\ login \notin DOMAIN result.report
    /\ password \in DOMAIN result.report

EmptyValue(v) == v = Str(<<>>) \/ (v.t = "file" /\ v.name = <<>>)

\* C4: a field whose rules include required and whose value is the empty string or
\* a File with an empty name has the declared required message in its list,
\* whatever its other constraints are and whatever they evaluate to.
C4_RequiredMessageForEmptyValue ==
    \A f \in Fields :
        ( /\ Called(f)
          /\ result.kind # "throw"
          /\ Declared(f)
          /\ "required" \in ConstraintNames(RulesOf(f))
          /\ EmptyValue(data[f]) )
        => /\ result.kind = "report"
           /\ Contains(result.report, f, RuleNamed(f, "required").params)

\* login is a File with an empty name, required is the second of its two rules, and
\* its list holds the message of the first rule and then the required message.
C4_Witness ==
    /\ Called(login)
    /\ result.kind = "report"
    /\ data[login].t = "file"
    /\ data[login].name = <<>>
    /\ Len(RulesOf(login)) = 2
    /\ RulesOf(login)[2].name = "required"
    /\ login \in DOMAIN result.report
    /\ Len(result.report[login]) = 2
    /\ result.report[login][2] = MsgRequired

\* The rules of f are built-in constraints with well-formed params: names of the
\* vocabulary, no custom function, a registered pattern name.
WellFormedBuiltin(f) ==
    \A i \in 1..Len(RulesOf(f)) :
        /\ RulesOf(f)[i].name \in Vocabulary \ {"validator", "validate"}
        /\ RulesOf(f)[i].name = "pattern"
              => PatternName(Index(RulesOf(f)[i].params, 0).s) # "none"

\* C5: for a schema of well-formed built-in constraints, validateForm and
\* validateField return a report for every flat data record, records that hold no
\* value for a declared field and records of numbers included: nothing is thrown.
C5_NoFaultForBuiltinSchema ==
    ( /\ lastEvent.ev \in {"validateForm", "validateField"}
      /\ \A f \in Fields : Declared(f) => WellFormedBuiltin(f) )
    => result.kind # "throw"

\* The declared message of a constraint: the last element of its params, or the
\* params themselves when they are a bare string.
DeclaredMessage(params) ==
    IF params.t = "array" THEN params.items[Len(params.items)] ELSE params

\* What one constraint is to contribute: a validator the non-empty string it
\* returns, any other constraint its declared message when it fails.
Contribution(rule, evaluated) ==
    IF rule.name = "validator"
    THEN IF IsNonEmptyString(evaluated) THEN <<evaluated>> ELSE <<>>
    ELSE IF ~Truthy(evaluated) THEN <<DeclaredMessage(rule.params)>> ELSE <<>>

RECURSIVE ExpectedMessages(_, _, _)
ExpectedMessages(rules, value, d) ==
    IF rules = <<>> THEN <<>>
    ELSE Contribution(Head(rules), checkConstraint(Head(rules).name, value, Head(rules).params, d))
         \o ExpectedMessages(Tail(rules), value, d)

\* C6: the messages of a field's list are exactly the messages of its failing
\* constraints, one per failing constraint, in the order of declaration; a passing
\* constraint contributes nothing and no message is dropped after an earlier failure.
C6_MessagesOfFailingConstraintsInOrder ==
    \A f \in Fields :
        ( /\ Called(f)
          /\ result.kind = "report"
          /\ Declared(f)
          /\ ~EmptyOptional(f) )
        => IF ExpectedMessages(RulesOf(f), data[f], data) = <<>>
           THEN f \notin DOMAIN result.report
           ELSE /\ f \in DOMAIN result.report
                /\ result.report[f] = ExpectedMessages(RulesOf(f), data[f], data)

\* C7: in every report validateForm or validateField returns, each field that is
\* present maps to a list of at least one message.
C7_NoEmptyListInReport ==
    (lastEvent.ev \in {"validateForm", "validateField"} /\ result.kind = "report")
    => \A f \in DOMAIN result.report : Len(result.report[f]) >= 1

\* validateForm evaluated the rules of login, none of which contributed a message,
\* and the report holds password alone.
C7_Witness ==
    /\ lastEvent.ev = "validateForm"
    /\ result.kind = "report"
    /\ Len(RulesOf(login)) = 2
    /\ ~EmptyOptional(login)
    /\ DOMAIN result.report = {password}

\* C8: isValidated becomes true only by a submit whose whole-form validation
\* returned an empty report, and once it is true, any change of a field's value
\* (typed, or made by a change event with no keydown) or a reset sets it to false.
C8_IsValidatedFollowsSubmitAndChanges ==
    [][ /\ (~isValidated /\ isValidated')
            => (lastEvent'.ev = "submit" /\ result' = Returned(EmptyReport))
        /\ (isValidated /\ (data' # data \/ lastEvent'.ev = "reset"))
            => ~isValidated' ]_vars

\* A value made of an optional leading '-', digits, and an optional '.' followed by digits.
WellFormedNumber(s) ==
    \E start \in {1, 2} : \E stop \in start..Len(s) :
        /\ start = 2 => s[1] = "-"
        /\ AllDigits(SubSeq(s, start, stop))
        /\ \/ stop = Len(s)
           \/ /\ stop + 2 <= Len(s)
              /\ s[stop + 1] = "."
              /\ AllDigits(SubSeq(s, stop + 2, Len(s)))

HasOtherCharacter(s) == \E i \in 1..Len(s) : ~IsDigit(s[i]) /\ s[i] \notin {"-", "."}

\* C9: with the constraint pattern ['number', msg], every non-empty well-formed
\* number passes and contributes no message, and a value that contains any other
\* character fails and contributes msg.
C9_NumberPatternAcceptsNumbers ==
    ( /\ Called(login)
      /\ RulesOf(login) = <<Rule("pattern", Arr(<<Str(PatNumber), MsgPattern>>))>>
      /\ data[login].s # <<>> )
    => /\ result.kind = "report"
       /\ WellFormedNumber(data[login].s) => login \notin DOMAIN result.report
       /\ HasOtherCharacter(data[login].s)
             => (login \in DOMAIN result.report /\ result.report[login] = <<MsgPattern>>)

\* C10: a change event on field f replaces only f's entry of errors with the result
\* of validateField(f, data): the entry of every other field g is the same before
\* and after the event, and f's entry is removed when f now validates.
C10_ChangeReplacesOnlyItsField ==
    [][ lastEvent'.ev = "change"
        => /\ \A g \in Fields \ {lastEvent'.field} :
                /\ g \in DOMAIN errors' <=> g \in DOMAIN errors
                /\ g \in DOMAIN errors => errors'[g] = errors[g]
           /\ result'.kind = "null" => lastEvent'.field \notin DOMAIN errors'
           /\ result'.kind = "report"
                => /\ lastEvent'.field \in DOMAIN errors'
                        <=> lastEvent'.field \in DOMAIN result'.report
                   /\ lastEvent'.field \in DOMAIN errors'
                        => errors'[lastEvent'.field] = result'.report[lastEvent'.field] ]_vars

\* After a change event on login, errors holds the message validateField gave for
\* login beside the entry of password that setErrors had injected.
C10_Witness ==
    /\ lastEvent = Event("change", login)
    /\ result.kind = "report"
    /\ login \in DOMAIN result.report
    /\ DOMAIN errors = {login, password}
    /\ errors[login] = <<MsgMin>>
    /\ errors[password] = <<MsgTaken>>

===========================================================================
